---- MODULE Spec2Model ----
(***************************************************************************)
(* The WCAG crawler: main, auditPage and runWithConcurrency, run on the    *)
(* single-threaded event loop.  A step of the model is one continuation    *)
(* of the program: the code between the await that resumes and the next    *)
(* await that suspends, chains of already-resolved awaits included.        *)
(***************************************************************************)
EXTENDS Naturals, Integers, Sequences, FiniteSets, TLC

VARIABLES
  argv2,            \* process.argv[2]
  envSiteUrl,       \* process.env.SITE_URL
  startUrl,         \* const START_URL = normalizeUrl(inputUrl), as a string
  web,              \* the URLs of the web that is crawled
  MAX_DEPTH,        \* const MAX_DEPTH
  MAX_CONCURRENCY,  \* const MAX_CONCURRENCY
  mainpc,           \* position of the main async function
  visited,          \* const visited = new Set()
  reports,          \* const reports = []
  summary,          \* what generateHtmlReport() has written into the report
  pc,               \* per auditPage call (one per claimed URL): the await it is at
  depth,            \* its depth argument
  owner,            \* the <<url, worker>> of the task that called it
  page,             \* state of the page it opened: "none", "open", "closed",
                    \* or "closeFailed" once a page.close() on it has rejected
  links,            \* its links, the hrefs page.$$eval returned
  queue,            \* queue of its runWithConcurrency call
  worker,           \* workers of its runWithConcurrency call
  results,          \* length of results of its runWithConcurrency call
  timers,           \* pending setTimeout(r, DELAY_MS) callbacks, in firing order
                    \* (one delay for all: they fire in the order they were set)
  attempts,         \* history: calls of auditPage(u) that evaluated visited.has(u)
  claimed,          \* history: calls of auditPage(u) that reached visited.add(u)
  opened,           \* history: pages opened for u
  failedAt,         \* history: the operation of u's visit that rejected
  started,          \* history: tasks of u's run that a worker has shifted and called
  caught            \* history: errors caught by the workers of u's run

(***************************************************************************)
(* URLs, as the URL parser sees them                                       *)
(***************************************************************************)
Url(h, p) == [host |-> h, path |-> p, hash |-> ""]

START_URL == Url("site.test", "/")
UrlA == Url("site.test", "/a")
UrlB == Url("site.test", "/b")
UrlC == Url("site.test", "/c")
UrlD == Url("site.test", "/d")
UrlX == Url("other.test", "/b")

\* the href of a link to an anchor of the page at /a
UrlATop == [host |-> "site.test", path |-> "/a", hash |-> "#top"]

\* every URL the model knows, in the order the pages link forward
UrlOrder == <<START_URL, UrlA, UrlATop, UrlB, UrlC, UrlD, UrlX>>

Urls == {UrlOrder[i] : i \in 1..Len(UrlOrder)}

\* the web of the crawl of sub-pages, and the small web of a page whose
\* anchor is linked to
Web == Urls \ {UrlATop}
WebOfAnchors == {START_URL, UrlA, UrlATop, UrlX}

\* the URLs of the crawled web, in the order of UrlOrder
WebOrder == SelectSeq(UrlOrder, LAMBDA u : u \in web)

Idx(u) == CHOOSE i \in 1..Len(WebOrder) : WebOrder[i] = u

\* new URL(link).hostname
Hostname(u) == u.host

\* bounds of the model
MaxDepthBound == 2
MaxConcurrencyBound == 2
MaxLinks == 2
MaxSpan == 2

\* results.violations of axe.run on the page at u
Violation(id, impact) == [id |-> id, impact |-> impact]

AuditOf(u) ==
  CASE u = START_URL -> <<>>
    [] u \in {UrlA, UrlATop} -> <<Violation("image-alt", "critical")>>
    [] u = UrlB -> <<Violation("label", "serious"), Violation("region", "")>>
    [] OTHER -> <<Violation("color-contrast", "serious")>>

RECURSIVE SeqsUpTo(_, _)
SeqsUpTo(S, n) ==
  IF n = 0 THEN {<<>>}
  ELSE LET shorter == SeqsUpTo(S, n - 1)
       IN shorter \cup {Append(s, x) : s \in {t \in shorter : Len(t) = n - 1}, x \in S}

\* the pages the page at u can link to: the next MaxSpan pages of UrlOrder
\* and the page of the other host
LinkTargets(u) ==
  {v \in web : Idx(v) > Idx(u) /\ (Idx(v) <= Idx(u) + MaxSpan \/ v = UrlX)}

\* the href lists page.$$eval can return on the page at u: at most MaxLinks
\* hrefs, in the order of UrlOrder, repeats included
LinkListsOf(u) ==
  {l \in SeqsUpTo(LinkTargets(u), MaxLinks) :
     \A i \in 1..(Len(l) - 1) : Idx(l[i]) <= Idx(l[i + 1])}

Range(s) == {s[i] : i \in 1..Len(s)}

NoOwner == <<>>

NoTask == [host |-> "", path |-> "", hash |-> ""]

\* the awaits of auditPage on the page, in program order
PageOps == {"goto", "addScriptTag", "evaluate", "$$eval", "close"}

\* the awaits inside try { ... } catch; browser.newPage() is before the try
TryOpsGotoOutside == PageOps \ {"goto"}
TryOps == PageOps

\* reports.push({ url, violations }) follows the await of page.evaluate
ReportAfterGoto == "goto"
ReportAfter == "evaluate"

(***************************************************************************)
(* Strings and normalizeUrl.  A string is the sequence of the pieces the   *)
(* URL parser reads it in: a scheme with its "//", a host, "/", a path     *)
(* segment, "#", a fragment, a space.                                      *)
(***************************************************************************)
Sp == " "
SchemeTokens == {"https://", "http://", "HTTP://"}
HostTokens == {"site.test", "Site.Test", "jeanbezerra.com"}
\* a host name with a space in it, which the URL parser rejects
BadHost == "si te"

\* the values undefined and null, which are no strings
Undefined == <<"(undefined)">>
Null == <<"(null)">>

\* raw inputs: [space] [scheme] [host [path]] [fragment] [space]
RawInputs ==
  LET Pads == {<<>>, <<Sp>>}
      Schemes == {<<>>} \cup {<<t>> : t \in SchemeTokens}
      Hosts == {<<h>> : h \in HostTokens \cup {BadHost}}
      Paths == {<<>>, <<"/">>, <<"/", "a">>}
      Hashes == {<<>>, <<"#">>, <<"#", "top">>}
      Bodies == Hashes \cup {h \o p \o f : h \in Hosts, p \in Paths, f \in Hashes}
  IN {l \o s \o b \o t : l \in Pads, s \in Schemes, b \in Bodies, t \in Pads}

\* !raw is false and raw is a string: neither undefined nor null nor ''
Truthy(raw) == raw # Undefined /\ raw # Null /\ raw # <<>>

\* raw.trim()
RECURSIVE Trim(_)
Trim(s) ==
  IF s = <<>> THEN s
  ELSE IF Head(s) = Sp THEN Trim(Tail(s))
  ELSE IF s[Len(s)] = Sp THEN Trim(SubSeq(s, 1, Len(s) - 1))
  ELSE s

\* /^https?:\/\//i.test(trimmed) ? trimmed : `https://${trimmed}`
HasProtocol(s) == s # <<>> /\ s[1] \in SchemeTokens
WithProtocol(trimmed) == IF HasProtocol(trimmed) THEN trimmed ELSE <<"https://">> \o trimmed

\* the URL parser puts the scheme and the host in lower case
Lower(t) ==
  CASE t = "HTTP://" -> "http://"
    [] t = "Site.Test" -> "site.test"
    [] OTHER -> t

Invalid == [scheme |-> "", host |-> "", path |-> <<>>, hash |-> <<>>]

\* new URL(s), for the strings of RawInputs with a scheme and for hrefs; the
\* path of an http(s) URL is never empty; Invalid where the parser throws
ParseURL(s) ==
  IF ~HasProtocol(s) \/ Len(s) < 2 THEN Invalid
  ELSE IF s[2] \notin HostTokens THEN Invalid
  ELSE LET rest == SubSeq(s, 3, Len(s))
           sharp == IF \E i \in 1..Len(rest) : rest[i] = "#"
                    THEN CHOOSE i \in 1..Len(rest) :
                           rest[i] = "#" /\ \A j \in 1..(i - 1) : rest[j] # "#"
                    ELSE Len(rest) + 1
           path == SubSeq(rest, 1, sharp - 1)
       IN IF path # <<>> /\ (path[1] # "/" \/ \E i \in 1..Len(path) : path[i] \notin {"/", "a"})
          THEN Invalid
          ELSE [scheme |-> Lower(s[1]), host |-> Lower(s[2]),
                path |-> IF path = <<>> THEN <<"/">> ELSE path,
                hash |-> SubSeq(rest, sharp, Len(rest))]

\* u.hash = ''
KeepHash(u) == u
ClearHash(u) == [u EXCEPT !.hash = <<>>]

\* if (!u.pathname) u.pathname = '/'
DefaultPath(u) == IF u.path = <<>> THEN [u EXCEPT !.path = <<"/">>] ELSE u

\* u.toString()
Href(u) == <<u.scheme, u.host>> \o u.path \o u.hash

normalizeUrl(raw) ==
  IF ~Truthy(raw) THEN Null
  ELSE LET trimmed == Trim(raw)
       IN IF trimmed = <<>> THEN Null
          ELSE LET u == ParseURL(WithProtocol(trimmed))
               IN IF u = Invalid THEN Null
                  ELSE Href(DefaultPath(ClearHash(u)))

RECURSIVE Join(_)
Join(s) == IF s = <<>> THEN "" ELSE s[1] \o Join(Tail(s))

\* the URL of the crawl that the href names
CrawlUrl(href) ==
  LET u == ParseURL(href)
  IN [host |-> u.host, path |-> Join(u.path), hash |-> Join(u.hash)]

\* const inputUrl = process.argv[2] || process.env.SITE_URL || 'https://jeanbezerra.com'
inputUrl ==
  IF Truthy(argv2) THEN argv2
  ELSE IF Truthy(envSiteUrl) THEN envSiteUrl
  ELSE <<"https://", "jeanbezerra.com">>

vars == <<argv2, envSiteUrl, startUrl, web, MAX_DEPTH, MAX_CONCURRENCY, mainpc,
          visited, reports, summary, pc, depth, owner,
          page, links, queue, worker, results, timers,
          attempts, claimed, opened, failedAt, started, caught>>

\* what the crawl never changes
config == <<argv2, envSiteUrl, startUrl, web, MAX_DEPTH, MAX_CONCURRENCY>>

\* const domain = new URL(START_URL).hostname
domain == Hostname(START_URL)

\* Array.from({ length: maxConcurrent }, worker)
NumWorkersOffByOne(maxConcurrent) == maxConcurrent + 1
NumWorkers(maxConcurrent) == maxConcurrent

Workers == 1..NumWorkers(MAX_CONCURRENCY)

\* no visit has begun
NoCrawl ==
  /\ visited = {}
  /\ summary = <<>>
  /\ pc = [u \in Urls |-> "idle"]
  /\ depth = [u \in Urls |-> 0]
  /\ owner = [u \in Urls |-> NoOwner]
  /\ page = [u \in Urls |-> "none"]
  /\ links = [u \in Urls |-> <<>>]
  /\ queue = [u \in Urls |-> <<>>]
  /\ worker = [u \in Urls |-> <<>>]
  /\ results = [u \in Urls |-> 0]
  /\ timers = <<>>
  /\ attempts = [u \in Urls |-> 0]
  /\ claimed = [u \in Urls |-> 0]
  /\ opened = [u \in Urls |-> 0]
  /\ failedAt = [u \in Urls |-> "none"]
  /\ started = [u \in Urls |-> <<>>]
  /\ caught = [u \in Urls |-> 0]

\* the state before the first statement of the module runs
Pristine ==
  /\ mainpc = "start"
  /\ startUrl = Undefined
  /\ reports = <<>>
  /\ NoCrawl

\* the crawl of the site of sub-pages, started as: node script site.test
Init ==
  /\ argv2 = <<"site.test">>
  /\ envSiteUrl = Undefined
  /\ web = Web
  /\ MAX_DEPTH \in 0..MaxDepthBound
  /\ MAX_CONCURRENCY \in 1..MaxConcurrencyBound
  /\ Pristine

(***************************************************************************)
(* runWithConcurrency.  S is the part of the state a chain of resolved     *)
(* awaits rewrites: [pc, queue, worker, results, timers, started, caught]. *)
(***************************************************************************)
Sched == [pc |-> pc, queue |-> queue, worker |-> worker, results |-> results,
          timers |-> timers, started |-> started, caught |-> caught]

\* Promise.all(workers): every worker has returned
AnyExited(S, p) == \E w \in DOMAIN S.worker[p] : S.worker[p][w].st = "exit"
AllExited(S, p) == \A w \in DOMAIN S.worker[p] : S.worker[p][w].st = "exit"

RECURSIVE WorkerLoop(_, _, _), RunReturns(_, _), TaskSettled(_, _, _, _)

\* async function worker(): one evaluation of the while condition and, when
\* the queue is not empty, the shift and the call of the task up to its
\* setTimeout await; when it is empty the worker returns
WorkerLoop(S, p, w) ==
  IF S.queue[p] # <<>>
  THEN LET task == Head(S.queue[p])
       IN [S EXCEPT !.queue[p] = Tail(@),
                    !.worker[p][w] = [st |-> "delay", task |-> task],
                    !.timers = Append(@, <<p, w>>),
                    !.started[p] = Append(@, task)]
  ELSE LET T == [S EXCEPT !.worker[p][w] = [st |-> "exit", task |-> NoTask]]
       IN IF AllExited(T, p) THEN RunReturns(T, p) ELSE T

\* await Promise.all(workers) resolves, runWithConcurrency returns and so
\* does the auditPage call that awaited it
RunHangs(S, p) == S
RunReturns(S, p) ==
  LET T == [S EXCEPT !.pc[p] = "returned"]
  IN IF owner[p] = NoOwner THEN T
     ELSE TaskSettled(T, owner[p][1], owner[p][2], TRUE)

\* the task worker w of run p awaits has settled: results.push on success,
\* the catch block otherwise, then the loop goes on
TaskSettledStops(S, p, w, ok) ==
  IF ok THEN WorkerLoop([S EXCEPT !.results[p] = @ + 1], p, w)
  ELSE LET T == [S EXCEPT !.caught[p] = @ + 1,
                          !.worker[p][w] = [st |-> "exit", task |-> NoTask]]
       IN IF AllExited(T, p) THEN RunReturns(T, p) ELSE T
TaskSettled(S, p, w, ok) ==
  LET T == IF ok THEN [S EXCEPT !.results[p] = @ + 1]
           ELSE [S EXCEPT !.caught[p] = @ + 1]
  IN WorkerLoop(T, p, w)

RECURSIVE StartWorkers(_, _, _)
StartWorkers(S, p, w) ==
  IF w > NumWorkers(MAX_CONCURRENCY) THEN S
  ELSE StartWorkers(WorkerLoop(S, p, w), p, w + 1)

\* runWithConcurrency(tasks, maxConcurrent) up to its await
runWithConcurrency(S, p, tasks) ==
  LET T == [S EXCEPT !.pc[p] = "run",
                     !.queue[p] = tasks,
                     !.worker[p] = [w \in Workers |-> [st |-> "new", task |-> NoTask]]]
  IN StartWorkers(T, p, 1)

\* where main is once the root auditPage call has settled
MainAfter(S) ==
  IF mainpc # "audit" THEN mainpc
  ELSE IF S.pc[START_URL] = "returned" THEN "browserClose"
  ELSE IF S.pc[START_URL] = "threw" THEN "crashed"
  ELSE "audit"

Commit(S) ==
  /\ pc' = S.pc
  /\ queue' = S.queue
  /\ worker' = S.worker
  /\ results' = S.results
  /\ timers' = S.timers
  /\ started' = S.started
  /\ caught' = S.caught
  /\ mainpc' = MainAfter(S)

\* the settling of call u, as its caller sees it
Settle(S, u, ok) ==
  IF owner[u] = NoOwner THEN S ELSE TaskSettled(S, owner[u][1], owner[u][2], ok)

(***************************************************************************)
(* auditPage                                                               *)
(***************************************************************************)
\* if (depth > MAX_DEPTH || visited.has(url)) return;
SkipsNoDedup(d, url, vis) == d > MAX_DEPTH
SkipsNoDepth(d, url, vis) == url \in vis
Skips(d, url, vis) == d > MAX_DEPTH \/ url \in vis

\* depth + 1
ChildDepth(d) == d + 1

\* new URL(link).hostname === baseDomain
IsInternalAny(link, baseDomain) == TRUE
IsInternal(link, baseDomain) == Hostname(link) = baseDomain

\* links.filter(link => ...)
internalLinks(u) == SelectSeq(links[u], LAMBDA link : IsInternal(link, domain))

\* [...new Set(internalLinks)]: first occurrences, in order
RECURSIVE Unique(_)
Unique(s) ==
  IF s = <<>> THEN <<>>
  ELSE LET init == Unique(SubSeq(s, 1, Len(s) - 1))
           last == s[Len(s)]
       IN IF last \in Range(init) THEN init ELSE Append(init, last)

uniqueLinks(u) == Unique(internalLinks(u))

\* reports after the await of operation op of u's visit has resolved
PushAfterEach(u, op) == Append(reports, [url |-> u, violations |-> AuditOf(u)])
Push(u, op) ==
  IF op = ReportAfter
  THEN Append(reports, [url |-> u, violations |-> AuditOf(u)])
  ELSE reports

(***************************************************************************)
(* generateHtmlReport.  A missing impact (undefined or null) is "".        *)
(***************************************************************************)
\* r.violations?.length || 0
RECURSIVE SumViolations(_)
SumViolations(rs) ==
  IF rs = <<>> THEN 0
  ELSE SumViolations(SubSeq(rs, 1, Len(rs) - 1)) + Len(rs[Len(rs)].violations)

\* const impact = v.impact || 'unknown'
ImpactAsIs(v) == v.impact
ImpactOf(v) == IF v.impact = "" THEN "unknown" ELSE v.impact

\* impactCount[impact] = (impactCount[impact] || 0) + 1
CountOne(count, impact) ==
  IF impact \in DOMAIN count
  THEN [count EXCEPT ![impact] = @ + 1]
  ELSE [k \in DOMAIN count \cup {impact} |-> IF k = impact THEN 1 ELSE count[k]]

\* for (const v of (r.violations || [])) ...
RECURSIVE CountViolations(_, _)
CountViolations(count, vs) ==
  IF vs = <<>> THEN count
  ELSE CountViolations(CountOne(count, ImpactOf(Head(vs))), Tail(vs))

\* for (const r of reports) ...
RECURSIVE CountReports(_, _)
CountReports(count, rs) ==
  IF rs = <<>> THEN count
  ELSE CountReports(CountViolations(count, Head(rs).violations), Tail(rs))

\* Number.prototype.toFixed(1) of the quotient a / b of two naturals: the
\* nearest number of tenths, the larger of two equally near ones; NaN for 0 / 0
ToFixed1(a, b) ==
  IF b = 0 THEN (IF a = 0 THEN "NaN" ELSE "Infinity")
  ELSE LET tenths == (20 * a + b) \div (2 * b)
       IN ToString(tenths \div 10) \o "." \o ToString(tenths % 10)

\* totalPages > 0 ? (totalViolations / totalPages).toFixed(1) : '0.0'
Average(totalViolations, totalPages) ==
  IF totalPages > 0 THEN ToFixed1(totalViolations, totalPages) ELSE "0.0"

\* the numbers generateHtmlReport() puts into wcag-report.html
generateHtmlReport(rs) ==
  LET totalPages == Len(rs)
      totalViolations == SumViolations(rs)
  IN [script |-> "wcag-crawler",
      totalPages |-> totalPages,
      totalViolations |-> totalViolations,
      impactCount |-> CountReports(<<>>, rs),
      avg |-> Average(totalViolations, totalPages)]

\* generateHtmlReport() of wcag-url-counter.js:
\* ${(totalViolations / totalPages).toFixed(1)}
generateHtmlReportOfCounter(rs) ==
  LET totalPages == Len(rs)
      totalViolations == SumViolations(rs)
  IN [script |-> "wcag-url-counter",
      totalPages |-> totalPages,
      totalViolations |-> totalViolations,
      impactCount |-> CountReports(<<>>, rs),
      avg |-> ToFixed1(totalViolations, totalPages)]

\* if (!START_URL) { ...; process.exit(1); }
ExitsNever(url) == FALSE
Exits(url) == ~Truthy(url)

\* the module runs: START_URL = normalizeUrl(inputUrl); the process exits
\* with status 1 if there is none, and else main calls puppeteer.launch
Startup ==
  /\ mainpc = "start"
  /\ startUrl' = normalizeUrl(inputUrl)
  /\ mainpc' = IF Exits(startUrl') THEN "exit1" ELSE "launch"
  /\ UNCHANGED <<argv2, envSiteUrl, web, MAX_DEPTH, MAX_CONCURRENCY, visited,
                 reports, summary, pc, depth, owner, page, links, queue, worker,
                 results, timers, attempts, claimed, opened, failedAt, started,
                 caught>>

\* puppeteer.launch resolves; main calls auditPage(browser, START_URL, 0,
\* domain), which claims the URL and awaits browser.newPage().  The crawl
\* is modelled from the root of the web.
Launch ==
  /\ mainpc = "launch"
  /\ Truthy(startUrl) /\ CrawlUrl(startUrl) = START_URL
  /\ ~Skips(0, START_URL, visited)
  /\ mainpc' = "audit"
  /\ visited' = visited \cup {START_URL}
  /\ pc' = [pc EXCEPT ![START_URL] = "newPage"]
  /\ depth' = [depth EXCEPT ![START_URL] = 0]
  /\ owner' = [owner EXCEPT ![START_URL] = NoOwner]
  /\ attempts' = [attempts EXCEPT ![START_URL] = @ + 1]
  /\ claimed' = [claimed EXCEPT ![START_URL] = @ + 1]
  /\ UNCHANGED <<config, summary, reports, page, links, queue, worker, results,
                 timers, opened, failedAt, started, caught>>

\* puppeteer.launch rejects: the main function rejects
LaunchRejects ==
  /\ mainpc = "launch"
  /\ mainpc' = "crashed"
  /\ UNCHANGED <<config, summary, visited, reports, pc, depth, owner, page, links,
                 queue, worker, results, timers, attempts, claimed, opened,
                 failedAt, started, caught>>

\* the oldest timer fires: the task of worker w of run p calls
\* auditPage(browser, link, depth + 1, baseDomain)
DelayFires ==
  /\ timers # <<>>
  /\ LET p == Head(timers)[1]
         w == Head(timers)[2]
         link == worker[p][w].task
         d == ChildDepth(depth[p])
         S == [Sched EXCEPT !.timers = Tail(@)]
     IN /\ attempts' = [attempts EXCEPT ![link] = IF d > MAX_DEPTH THEN @ ELSE @ + 1]
        /\ IF Skips(d, link, visited)
           THEN /\ Commit(TaskSettled(S, p, w, TRUE))
                /\ UNCHANGED <<visited, depth, owner, claimed>>
           ELSE /\ visited' = visited \cup {link}
                /\ claimed' = [claimed EXCEPT ![link] = @ + 1]
                /\ depth' = [depth EXCEPT ![link] = d]
                /\ owner' = [owner EXCEPT ![link] = <<p, w>>]
                /\ Commit([S EXCEPT !.pc[link] = "newPage",
                                    !.worker[p][w].st = "await"])
  /\ UNCHANGED <<config, summary, reports, page, links, opened, failedAt>>

\* browser.newPage() resolves; page.goto is called
NewPageResolves(u) ==
  /\ pc[u] = "newPage"
  /\ pc' = [pc EXCEPT ![u] = "goto"]
  /\ page' = [page EXCEPT ![u] = "open"]
  /\ opened' = [opened EXCEPT ![u] = @ + 1]
  /\ UNCHANGED <<config, summary, mainpc, visited, reports, depth, owner, links,
                 queue, worker, results, timers, attempts, claimed, failedAt,
                 started, caught>>

\* page.goto resolves; page.addScriptTag is called
GotoResolves(u) ==
  /\ pc[u] = "goto"
  /\ pc' = [pc EXCEPT ![u] = "addScriptTag"]
  /\ reports' = Push(u, "goto")
  /\ UNCHANGED <<config, summary, mainpc, visited, depth, owner, page, links, queue,
                 worker, results, timers, attempts, claimed, opened, failedAt,
                 started, caught>>

\* page.addScriptTag resolves; page.evaluate is called
AddScriptTagResolves(u) ==
  /\ pc[u] = "addScriptTag"
  /\ pc' = [pc EXCEPT ![u] = "evaluate"]
  /\ reports' = Push(u, "addScriptTag")
  /\ UNCHANGED <<config, summary, mainpc, visited, depth, owner, page, links, queue,
                 worker, results, timers, attempts, claimed, opened, failedAt,
                 started, caught>>

\* page.evaluate resolves: reports.push({ url, violations }); page.$$eval is called
EvaluateResolves(u) ==
  /\ pc[u] = "evaluate"
  /\ pc' = [pc EXCEPT ![u] = "$$eval"]
  /\ reports' = Push(u, "evaluate")
  /\ UNCHANGED <<config, summary, mainpc, visited, depth, owner, page, links, queue,
                 worker, results, timers, attempts, claimed, opened, failedAt,
                 started, caught>>

\* page.$$eval resolves with the hrefs; page.close is called
EvalLinksResolves(u) ==
  /\ pc[u] = "$$eval"
  /\ \E hrefs \in LinkListsOf(u) : links' = [links EXCEPT ![u] = hrefs]
  /\ pc' = [pc EXCEPT ![u] = "close"]
  /\ UNCHANGED <<config, summary, mainpc, visited, reports, depth, owner, page, queue,
                 worker, results, timers, attempts, claimed, opened, failedAt,
                 started, caught>>

\* page.close() resolves; uniqueLinks and nextTasks are built and
\* runWithConcurrency(nextTasks, MAX_CONCURRENCY) is called
CloseResolves(u) ==
  /\ pc[u] = "close"
  /\ page' = [page EXCEPT ![u] = "closed"]
  /\ Commit(runWithConcurrency(Sched, u, uniqueLinks(u)))
  /\ UNCHANGED <<config, summary, visited, reports, depth, owner, links, attempts,
                 claimed, opened, failedAt>>

\* an await inside the try block rejects: the catch block logs the error
\* and calls page.close()
RejectsInTry(u) ==
  /\ pc[u] \in TryOps
  /\ failedAt' = [failedAt EXCEPT ![u] = pc[u]]
  /\ page' = [page EXCEPT ![u] = IF pc[u] = "close" THEN "closeFailed" ELSE @]
  /\ pc' = [pc EXCEPT ![u] = "catchClose"]
  /\ UNCHANGED <<config, summary, mainpc, visited, reports, depth, owner, links,
                 queue, worker, results, timers, attempts, claimed, opened,
                 started, caught>>

\* an await outside the try block (browser.newPage()) rejects: auditPage rejects
RejectsOutsideTry(u) ==
  /\ pc[u] \in ({"newPage"} \cup PageOps) \ TryOps
  /\ failedAt' = [failedAt EXCEPT ![u] = pc[u]]
  /\ Commit(Settle([Sched EXCEPT !.pc[u] = "threw"], u, FALSE))
  /\ UNCHANGED <<config, summary, visited, reports, depth, owner, page, links,
                 attempts, claimed, opened>>

\* try { await page.close(); } catch {}: what the page is once it has settled
CatchClosesNothing == {"open"}
CatchCloses == {"closed", "closeFailed"}

\* page.close() of the catch block settles (its rejection is swallowed);
\* auditPage returns
CatchCloseSettles(u) ==
  /\ pc[u] = "catchClose"
  /\ \E st \in CatchCloses : page' = [page EXCEPT ![u] = st]
  /\ Commit(Settle([Sched EXCEPT !.pc[u] = "returned"], u, TRUE))
  /\ UNCHANGED <<config, summary, visited, reports, depth, owner, links, attempts,
                 claimed, opened, failedAt>>

\* browser.close() resolves; generateHtmlReport() runs
BrowserCloseResolves ==
  /\ mainpc = "browserClose"
  /\ mainpc' = "done"
  /\ summary' = Append(summary, generateHtmlReport(reports))
  /\ UNCHANGED <<config, visited, reports, pc, depth, owner, page, links,
                 queue, worker, results, timers, attempts, claimed, opened,
                 failedAt, started, caught>>

\* browser.close() rejects: the main function rejects
BrowserCloseRejects ==
  /\ mainpc = "browserClose"
  /\ mainpc' = "crashed"
  /\ UNCHANGED <<config, summary, visited, reports, pc, depth, owner, page, links,
                 queue, worker, results, timers, attempts, claimed, opened,
                 failedAt, started, caught>>

Next ==
  \/ Startup
  \/ Launch
  \/ LaunchRejects
  \/ DelayFires
  \/ \E u \in Urls : NewPageResolves(u)
  \/ \E u \in Urls : GotoResolves(u)
  \/ \E u \in Urls : AddScriptTagResolves(u)
  \/ \E u \in Urls : EvaluateResolves(u)
  \/ \E u \in Urls : EvalLinksResolves(u)
  \/ \E u \in Urls : CloseResolves(u)
  \/ \E u \in Urls : RejectsInTry(u)
  \/ \E u \in Urls : RejectsOutsideTry(u)
  \/ \E u \in Urls : CatchCloseSettles(u)
  \/ BrowserCloseResolves
  \/ BrowserCloseRejects

Spec == Init /\ [][Next]_vars

\* the crawl of a site of three pages and a link to another host
WebOfThree == {START_URL, UrlA, UrlB, UrlX}

InitOfThree ==
  /\ argv2 = <<"site.test">>
  /\ envSiteUrl = Undefined
  /\ web = WebOfThree
  /\ MAX_DEPTH \in 0..MaxDepthBound
  /\ MAX_CONCURRENCY \in 1..MaxConcurrencyBound
  /\ Pristine

\* the event loop runs a continuation whenever one is pending, and every
\* operation that is awaited settles
FairSpec == InitOfThree /\ [][Next]_vars /\ WF_vars(Next)

\* bounds of the crawl that follows a start of the process with any input
MaxStartDepth == 0
MaxStartConcurrency == 1

\* the process started with any argument and any SITE_URL (the latter is
\* read only when the argument is missing or empty)
InitStart ==
  /\ argv2 \in RawInputs \cup {Undefined}
  /\ envSiteUrl \in {Undefined, <<>>, <<Sp>>, <<"Site.Test", "/">>, <<"http://">>}
  /\ Truthy(argv2) => envSiteUrl = Undefined
  /\ web = Web
  /\ MAX_DEPTH \in 0..MaxStartDepth
  /\ MAX_CONCURRENCY \in 1..MaxStartConcurrency
  /\ Pristine

SpecStart == InitStart /\ [][Next]_vars

\* the crawl of a site with a page whose anchor is linked to
InitAnchors ==
  /\ argv2 = <<"site.test">>
  /\ envSiteUrl = Undefined
  /\ web = WebOfAnchors
  /\ MAX_DEPTH \in 0..MaxDepthBound
  /\ MAX_CONCURRENCY \in 1..MaxConcurrencyBound
  /\ Pristine

SpecAnchors == InitAnchors /\ [][Next]_vars

(***************************************************************************)
(* The report generators on their own: generateHtmlReport of the crawler   *)
(* after browser.close(), and generateHtmlReport of wcag-url-counter.js    *)
(* after its crawlAndAudit(startUrl), on any Report of the bounds.         *)
(***************************************************************************)
MaxPages == 3
MaxViolations == 2

Impacts == {"critical", "serious", ""}

ViolationLists == SeqsUpTo({Violation("rule", i) : i \in Impacts}, MaxViolations)

\* the Reports of n records
RECURSIVE ReportsOfLen(_)
ReportsOfLen(n) ==
  IF n = 0 THEN {<<>>}
  ELSE {Append(rs, [url |-> UrlOrder[n], violations |-> vs]) :
          rs \in ReportsOfLen(n - 1), vs \in ViolationLists}

ReportInputs == UNION {ReportsOfLen(n) : n \in 0..MaxPages}

\* wcag-url-counter.js: await crawlAndAudit(startUrl) returns;
\* generateHtmlReport() runs
CounterAuditReturns ==
  /\ mainpc = "counterAudit"
  /\ mainpc' = "done"
  /\ summary' = Append(summary, generateHtmlReportOfCounter(reports))
  /\ UNCHANGED <<config, visited, reports, pc, depth, owner, page, links,
                 queue, worker, results, timers, attempts, claimed, opened,
                 failedAt, started, caught>>

InitReport ==
  /\ argv2 = <<"site.test">>
  /\ envSiteUrl = Undefined
  /\ startUrl = normalizeUrl(inputUrl)
  /\ web = Web
  /\ MAX_DEPTH = 1
  /\ MAX_CONCURRENCY = 3
  /\ mainpc \in {"browserClose", "counterAudit"}
  /\ reports \in ReportInputs
  /\ NoCrawl

NextReport ==
  \/ BrowserCloseResolves
  \/ BrowserCloseRejects
  \/ CounterAuditReturns

SpecReport == InitReport /\ [][NextReport]_vars

(***************************************************************************)
(* Properties                                                              *)
(***************************************************************************)
HasRecord(u) == \E i \in 1..Len(reports) : reports[i].url = u

\* pages for which browser.newPage() has resolved and no page.close() has settled
OpenPages == {u \in Urls : page[u] = "open"}

SameHost(u) == Hostname(u) = Hostname(START_URL)

\* the link graph, as the pages loaded so far show it
LinksOf(u) == {v \in Range(links[u]) : SameHost(v)}

\* the URLs of the root's host within k links of the root
RECURSIVE ReachWithin(_)
ReachWithin(k) ==
  IF k = 0 THEN {START_URL}
  ELSE LET R == ReachWithin(k - 1) IN R \cup UNION {LinksOf(p) : p \in R}

NoVisitFailed == \A u \in Urls : failedAt[u] = "none"

\* the pages from the root to u along which u's visit was scheduled
RECURSIVE ChainTo(_)
ChainTo(u) == IF owner[u] = NoOwner THEN <<u>> ELSE Append(ChainTo(owner[u][1]), u)

IsLinkChain(c) ==
  /\ c[1] = START_URL
  /\ \A i \in 1..(Len(c) - 1) : c[i + 1] \in Range(links[c[i]])

\* C1: at every moment at most MAX_CONCURRENCY pages are open, for every
\* MAX_DEPTH and every link graph.
C1_GlobalConcurrencyBound == Cardinality(OpenPages) <= MAX_CONCURRENCY

\* C2: of the visits of one URL that reach the check of the visited set,
\* exactly one passes it, inserts the URL and opens a page; the others return
\* without opening a page.
C2_Dedup ==
  \A u \in Urls :
    /\ claimed[u] <= 1
    /\ attempts[u] >= 1 => claimed[u] = 1
    /\ opened[u] <= claimed[u]

\* a second visit of a URL, scheduled by another parent page, was turned away
\* while the page of the first is open
C2_Witness ==
  \E u \in Urls : \E p1, p2 \in Urls :
    /\ p1 # p2
    /\ u \in Range(started[p1]) /\ u \in Range(started[p2])
    /\ attempts[u] = 2 /\ claimed[u] = 1 /\ page[u] = "open"

\* C3: when the root call has returned and no visit failed, every URL of the
\* root's host within MAX_DEPTH links of the root is visited and has a record.
C3_Completeness ==
  (pc[START_URL] = "returned" /\ NoVisitFailed) =>
    \A u \in ReachWithin(MAX_DEPTH) : u \in visited /\ HasRecord(u)

\* C4: every URL with a record was visited at a depth d in 0..MAX_DEPTH that
\* is the length of a chain of links from the root to it, and no visit deeper
\* than MAX_DEPTH claims a URL or opens a page.
C4_DepthBound ==
  /\ \A i \in 1..Len(reports) :
       LET u == reports[i].url
       IN /\ depth[u] \in 0..MAX_DEPTH
          /\ Len(ChainTo(u)) = depth[u] + 1
          /\ IsLinkChain(ChainTo(u))
  /\ \A u \in Urls : pc[u] # "idle" => depth[u] <= MAX_DEPTH

\* a page audited at depth MAX_DEPTH whose own link was then turned away
C4_Witness ==
  \E u \in Urls :
    /\ MAX_DEPTH >= 1 /\ depth[u] = MAX_DEPTH /\ HasRecord(u)
    /\ pc[u] = "returned" /\ results[u] >= 1

\* C5: every URL that is claimed, opened, recorded or scheduled as a task has
\* the root's hostname; a link to another host never becomes a visit.
C5_DomainScoping ==
  /\ \A u \in Urls :
       (u \in visited \/ pc[u] # "idle" \/ page[u] # "none" \/ HasRecord(u)
          \/ attempts[u] > 0) => SameHost(u)
  /\ \A p \in Urls : \A l \in Range(queue[p]) \cup Range(started[p]) : SameHost(l)

\* the scenario of the specification: the root links to /a and to other.test
C5_Witness ==
  /\ MAX_DEPTH = 1
  /\ links[START_URL] = <<UrlA, UrlX>>
  /\ mainpc = "done"
  /\ Len(reports) = 2 /\ HasRecord(START_URL) /\ HasRecord(UrlA)

\* u's call got past page.close() and called runWithConcurrency
Ran(u) == pc[u] \in {"run", "returned"} /\ failedAt[u] = "none"

\* a continuation of the crawl is pending: a timer or an operation on a page
Pending ==
  \/ timers # <<>>
  \/ \E u \in Urls : pc[u] \in {"newPage", "catchClose"} \cup PageOps

\* C6: a failure of navigation or of the audit of a page (any await of the
\* try block) does not escape auditPage: the call returns normally, the worker
\* that awaited it goes on, the crawl never stops short while the root call
\* is pending, and every task of every finished run was run to its end.
C6_FailureIsolation ==
  /\ \A u \in Urls :
       failedAt[u] \in PageOps =>
         /\ pc[u] \in {"catchClose", "returned"}
         /\ (pc[u] = "returned" /\ owner[u] # NoOwner) =>
              LET w == worker[owner[u][1]][owner[u][2]]
              IN ~(w.st = "await" /\ w.task = u)
  /\ mainpc = "audit" => Pending
  /\ mainpc = "crashed" => \A u \in Urls : pc[u] = "threw" => failedAt[u] = "newPage"
  /\ \A p \in Urls :
       (Ran(p) /\ pc[p] = "returned") =>
         \A l \in Range(uniqueLinks(p)) :
           /\ l \in Range(started[p])
           /\ (owner[l] # NoOwner /\ owner[l][1] = p) =>
                pc[l] \in {"returned", "threw"}

\* the navigation of a page fails, its sibling is audited afterwards and the
\* report is generated
C6_Witness ==
  \E u, v \in Urls :
    /\ u # v /\ owner[u] # NoOwner /\ owner[v] # NoOwner
    /\ owner[u][1] = owner[v][1]
    /\ failedAt[u] = "goto" /\ failedAt[v] = "none" /\ HasRecord(v)
    /\ mainpc = "done"

\* C7 as claimed: a URL whose load, audit or link extraction failed has no
\* record in the Report.
C7_NoRecordIfAnyFails ==
  \A u \in Urls :
    failedAt[u] \in {"goto", "addScriptTag", "evaluate", "$$eval"} => ~HasRecord(u)

\* C7 as amended: a URL has a record only if its load (goto, addScriptTag) and
\* its audit succeeded, and none if one of them failed; the record is pushed
\* before the links are extracted, so a failure of the link extraction or of
\* page.close() leaves it in the Report.
C7_RecordIffAudited ==
  \A u \in Urls :
    /\ HasRecord(u) =>
         /\ pc[u] \in {"$$eval", "close", "run", "catchClose", "returned"}
         /\ failedAt[u] \in {"none", "$$eval", "close"}
    /\ failedAt[u] \in {"$$eval", "close"} => HasRecord(u)

\* one page failed to load and has no record, another failed in the link
\* extraction and has one
C7_Witness ==
  \E u, v \in Urls :
    /\ failedAt[u] = "goto" /\ pc[u] = "returned" /\ ~HasRecord(u)
    /\ failedAt[v] = "$$eval" /\ pc[v] = "returned" /\ HasRecord(v)

\* tasks of u's run that were called and have not settled
InFlight(u) == Len(started[u]) - results[u] - caught[u]

\* C8: during one call of runWithConcurrency at most maxConcurrent of its
\* tasks are started and not yet finished.
C8_RunConcurrencyBound ==
  \A p \in Urls : InFlight(p) >= 0 /\ InFlight(p) <= MAX_CONCURRENCY

\* a run with more tasks than workers: maxConcurrent tasks execute, one waits
C8_Witness ==
  \E p \in Urls : InFlight(p) = MAX_CONCURRENCY /\ queue[p] # <<>>

\* C9: in a run every task is shifted and called exactly once, in queue
\* order, also when tasks throw; a worker returns only on an empty queue; a
\* finished run has settled every task, by a push on results or by its catch
\* block; the call of runWithConcurrency never rejects.
C9_ExactlyOnceAndIsolation ==
  \A p \in Urls :
    /\ Ran(p) =>
         /\ started[p] \o queue[p] = uniqueLinks(p)
         /\ caught[p] = Cardinality({l \in Range(started[p]) :
                                       pc[l] = "threw" /\ owner[l] # NoOwner
                                         /\ owner[l][1] = p})
    /\ (pc[p] = "run" /\ queue[p] # <<>>) =>
         \A w \in DOMAIN worker[p] : worker[p][w].st # "exit"
    /\ (Ran(p) /\ pc[p] = "returned") =>
         /\ queue[p] = <<>>
         /\ results[p] + caught[p] = Len(started[p])
    /\ started[p] # <<>> => pc[p] # "threw"

\* the first task of a run of one worker threw and the second was still run
C9_Witness ==
  \E p \in Urls :
    /\ MAX_CONCURRENCY = 1 /\ pc[p] = "returned" /\ Len(started[p]) = 2
    /\ pc[started[p][1]] = "threw" /\ caught[p] = 1
    /\ HasRecord(started[p][2]) /\ results[p] = 1

\* nothing of the crawl is left to run
Quiescent ==
  /\ timers = <<>>
  /\ \A u \in Urls :
       /\ queue[u] = <<>>
       /\ pc[u] \in {"idle", "returned", "threw"}
       /\ page[u] # "open"
       /\ \A w \in DOMAIN worker[u] : worker[u][w].st = "exit"

\* C10: once the root call of auditPage has returned (and so when
\* generateHtmlReport runs) no task is queued, no timer or visit is pending
\* and no page is open, and from then on the Report never changes.
C10_QuiescentAndFrozen ==
  /\ [](pc[START_URL] = "returned" => Quiescent)
  /\ [][pc[START_URL] = "returned" => reports' = reports]_vars

\* the report is generated after a crawl of two levels with a failed page
C10_Witness ==
  /\ mainpc = "done" /\ Len(reports) >= 3
  /\ \E u \in Urls : depth[u] = 2 /\ HasRecord(u)
  /\ \E u \in Urls : failedAt[u] # "none"

\* C11: when normalizeUrl returns no URL for the input (an empty, blank,
\* non-string or unparsable one), the process exits with status 1 at start-up
\* and nothing of the crawl ever happens: the visited set and the Report stay
\* empty, no browser is launched, no page is opened, no report is written.
C11_InvalidStartIsFatal ==
  /\ \A raw \in {Undefined, <<>>, <<Sp>>, <<Sp, Sp>>, <<"https://">>, <<BadHost>>} :
       normalizeUrl(raw) = Null
  /\ normalizeUrl(inputUrl) = Null =>
       /\ mainpc \in {"start", "exit1"}
       /\ visited = {} /\ reports = <<>> /\ summary = <<>> /\ timers = <<>>
       /\ \A u \in Urls : pc[u] = "idle" /\ page[u] = "none" /\ opened[u] = 0

\* the process has exited on an input with a scheme that does not parse
C11_Witness ==
  /\ mainpc = "exit1" /\ startUrl = Null
  /\ HasProtocol(Trim(inputUrl))

\* a NormalizedUrl: no fragment and a path that is not empty
NormalizedUrl(u) == u.hash = "" /\ u.path # ""

\* two URLs that differ in their fragment only
SamePage(u, v) == u # v /\ u.host = v.host /\ u.path = v.path

\* C15: every URL in the visited set and every URL of a record is a
\* NormalizedUrl, and of two URLs that differ only in their fragment at most
\* one gets a page opened and at most one gets a record.
C15_OnlyNormalizedUrls ==
  /\ \A u \in visited : NormalizedUrl(u)
  /\ \A i \in 1..Len(reports) : NormalizedUrl(reports[i].url)
  /\ \A u, v \in Urls :
       SamePage(u, v) =>
         /\ opened[u] + opened[v] <= 1
         /\ ~(HasRecord(u) /\ HasRecord(v))

\* the violations of the Report, as <<record, position>>
Cells ==
  UNION {{<<p, j>> : j \in 1..Len(reports[p].violations)} : p \in 1..Len(reports)}

\* the impact category of a violation
Category(c) ==
  LET impact == reports[c[1]].violations[c[2]].impact
  IN IF impact = "" THEN "unknown" ELSE impact

\* C12: the average per page of a generated report is the quotient
\* totalViolations / totalPages to one decimal when totalPages > 0 and 0.0
\* when the Report is empty; it is never the result of a division by zero.
C12_AverageDefined ==
  \A i \in 1..Len(summary) :
    LET r == summary[i]
    IN /\ r.avg \notin {"NaN", "Infinity"}
       /\ r.totalPages = 0 => r.avg = "0.0"
       /\ r.totalPages > 0 =>
            \E n \in 0..(10 * r.totalViolations + 1) :
              /\ r.avg = ToString(n \div 10) \o "." \o ToString(n % 10)
              /\ 2 * (10 * r.totalViolations - n * r.totalPages) <= r.totalPages
              /\ 2 * (n * r.totalPages - 10 * r.totalViolations) <= r.totalPages

RECURSIVE SumOver(_, _)
SumOver(f, keys) ==
  IF keys = {} THEN 0
  ELSE LET k == CHOOSE x \in keys : TRUE IN f[k] + SumOver(f, keys \ {k})

\* C13: in a generated report totalPages is the number of records,
\* totalViolations the number of violations of all records, and impactCount
\* gives for every impact category the number of violations with it, a
\* violation without impact counting as 'unknown'; the counts sum to
\* totalViolations.
C13_AggregationCorrect ==
  \A i \in 1..Len(summary) :
    LET r == summary[i]
    IN /\ r.totalPages = Len(reports)
       /\ r.totalViolations = Cardinality(Cells)
       /\ DOMAIN r.impactCount = {Category(c) : c \in Cells}
       /\ \A k \in DOMAIN r.impactCount :
            r.impactCount[k] = Cardinality({c \in Cells : Category(c) = k})
       /\ SumOver(r.impactCount, DOMAIN r.impactCount) = r.totalViolations

\* a report of three records, one without violations, two violations
\* without impact
C13_Witness ==
  /\ Len(summary) = 1 /\ summary[1].script = "wcag-crawler"
  /\ summary[1].totalPages = 3 /\ summary[1].totalViolations = 4
  /\ Len(reports[2].violations) = 0
  /\ "unknown" \in DOMAIN summary[1].impactCount
  /\ summary[1].impactCount["unknown"] = 2
  /\ summary[1].avg = "1.3"

\* C14: the URL normalizeUrl returns is a fixed point of normalizeUrl; it has
\* no fragment and a path that is not empty; a bare host name gets the scheme
\* https://.
C14_NormalizerIdempotent ==
  (mainpc # "start" /\ startUrl # Null) =>
    /\ normalizeUrl(startUrl) = startUrl
    /\ "#" \notin Range(startUrl)
    /\ Len(startUrl) >= 3 /\ startUrl[3] = "/"
    /\ \A h \in HostTokens :
         Trim(inputUrl) = <<h>> => startUrl = <<"https://", Lower(h), "/">>

\* a padded input with a host in capitals, a path and a fragment was normalized
C14_Witness ==
  /\ argv2 = <<Sp, "Site.Test", "/", "a", "#", "top", Sp>>
  /\ startUrl = <<"https://", "site.test", "/", "a">>

\* C16: the Report never holds two records with the same URL, and it only
\* grows: every step keeps the records it has, unchanged and in place.
C16_OneRecordPerUrl ==
  /\ [](\A i, j \in 1..Len(reports) : reports[i].url = reports[j].url => i = j)
  /\ [][/\ Len(reports') >= Len(reports)
        /\ SubSeq(reports', 1, Len(reports)) = reports]_vars

\* a URL two pages link to, visited twice over, has its one record
C16_Witness ==
  \E u \in Urls : \E p1, p2 \in Urls :
    /\ p1 # p2 /\ u \in Range(started[p1]) /\ u \in Range(started[p2])
    /\ attempts[u] = 2 /\ HasRecord(u) /\ pc[u] = "returned"
    /\ Len(reports) >= 3 /\ mainpc = "done"

\* C17: a URL is never removed from the visited set, also when its visit
\* fails; a URL whose visit failed is never claimed or opened again, and no
\* URL has a page opened for it more than once.
C17_NoRetry ==
  /\ [][visited \subseteq visited']_vars
  /\ [](\A u \in Urls : opened[u] <= 1 /\ (failedAt[u] # "none" => u \in visited))
  /\ [][\A u \in Urls :
          failedAt[u] # "none" =>
            opened'[u] = opened[u] /\ claimed'[u] = claimed[u]]_vars

\* with one worker per run: /b was claimed by the run of /a and failed; the
\* root's run then called it again and it was turned away
C17_Witness ==
  /\ MAX_CONCURRENCY = 1
  /\ failedAt[UrlB] = "goto" /\ owner[UrlB] # NoOwner /\ owner[UrlB][1] = UrlA
  /\ started[START_URL] = <<UrlA, UrlB>> /\ results[START_URL] = 2
  /\ attempts[UrlB] = 2 /\ opened[UrlB] = 1 /\ claimed[UrlB] = 1

\* C18: a call of auditPage that has got past its page (it runs the tasks of
\* the links, has returned or has thrown) has no open page: the page was
\* closed on the success path and by the catch block on every failure path;
\* when the root call has returned no page is open.
C18_PageRelease ==
  /\ \A u \in Urls : pc[u] \in {"run", "returned", "threw"} => page[u] # "open"
  /\ \A u \in Urls :
       (pc[u] = "returned" /\ opened[u] >= 1) => page[u] \in {"closed", "closeFailed"}
  /\ pc[START_URL] = "returned" => OpenPages = {}

\* the crawl has returned: a page whose audit failed and a page whose link
\* extraction failed were closed by the catch block, another on the success path
C18_Witness ==
  /\ pc[START_URL] = "returned"
  /\ \E u, v, x \in Urls :
       /\ failedAt[u] = "evaluate" /\ page[u] = "closed" /\ pc[u] = "returned"
       /\ failedAt[v] = "$$eval" /\ page[v] = "closed" /\ pc[v] = "returned"
       /\ failedAt[x] = "none" /\ page[x] = "closed" /\ pc[x] = "returned"

\* the oldest timer is of a task that calls auditPage beyond the depth bound
BeyondDepth ==
  timers # <<>> /\ ChildDepth(depth[Head(timers)[1]]) > MAX_DEPTH

\* C19: a call of auditPage with depth > MAX_DEPTH changes neither the
\* visited set nor the Report nor any page, and claims nothing; the URL is
\* in the visited set only if a call within the bound has claimed it.
C19_BeyondDepthIsNoOp ==
  /\ [][(BeyondDepth /\ DelayFires) =>
          /\ visited' = visited /\ reports' = reports /\ page' = page
          /\ claimed' = claimed /\ opened' = opened /\ depth' = depth]_vars
  /\ [](\A u \in Urls : u \in visited <=> claimed[u] >= 1)

\* with one worker per run and MAX_DEPTH = 1: the run of /a called /b at
\* depth 2 and left it unclaimed; the root's run then claimed it at depth 1
C19_Witness ==
  /\ MAX_CONCURRENCY = 1 /\ MAX_DEPTH = 1
  /\ UrlB \in Range(started[UrlA]) /\ pc[UrlA] = "returned"
  /\ started[START_URL] = <<UrlA, UrlB>>
  /\ UrlB \in visited /\ depth[UrlB] = 1 /\ owner[UrlB][1] = START_URL
  /\ HasRecord(UrlB)

====
